---- MODULE Spec2Model ----
(***************************************************************************)
(* Model of the food storage tracker (Streamlit application):             *)
(*   - check_expiring_items          (src/main.py)                         *)
(*   - send_expiration_notification  (src/email_handler.py)                *)
(*   - get_next_scheduled_time       (src/email_handler.py)                *)
(*   - the sidebar, storage tab and admin tab handlers of src/main.py      *)
(*   - StorageManager                (src/models/storage.py)               *)
(*   - save_storage_data, load_storage_data (src/database.py)              *)
(*   - the email section of the admin component (src/components/admin.py)  *)
(*                                                                         *)
(* Dates are day numbers; day 0 is a Monday, so date.weekday() = d % 7.    *)
(* A time of day is a tick: tick 2*h is "h:00:00" exactly and tick 2*h+1   *)
(* is some instant strictly between h:00 and (h+1):00.  A "HH:MM" string   *)
(* is modelled by its hour h (minutes 00), and strptime maps it to the     *)
(* tick 2*h: a schedule time never carries seconds, the clock does.        *)
(***************************************************************************)
EXTENDS Integers, Sequences, FiniteSets, TLC

VARIABLES
    now_date,             \* datetime.now().date()
    now_time,             \* datetime.now().time(), a tick
    weekdays,             \* argument of get_next_scheduled_time
    time_str,             \* argument of get_next_scheduled_time ("HH:MM", an hour)
    sched_calls,          \* the calls of get_next_scheduled_time made so far
    storage_units,        \* st.session_state.storage_units
    expiration_reminders, \* st.session_state.expiration_reminders (its keys)
    item_history,         \* st.session_state.item_history
    expired_items,        \* result of the last check_expiring_items()
    expiring_warnings,    \* result of the last check_expiring_items()
    scanned,              \* the two lists above hold the result of a scan
    times_reported,       \* per reminder key: scans that returned it as expiring soon
                          \* since the reminders were last cleared (counted up to 2)
    persisted,            \* the documents of the store: storage units, history, reminders
    email_config,         \* contents of email_config.yml
    notification,         \* the send_expiration_notification call of the last step
    schedule_info,        \* last_sent, next_send of the last get_email_schedule_info()
    manager_items,        \* result of the last StorageManager.get_expiring_items()
    pressed,              \* the button whose handler ran in the last script run,
                          \* or the method called on the session since
    entered,              \* what was entered in the form of that handler, or the
                          \* arguments of that method
    db_storage_units,     \* the documents of the collection db.storage_units
    storage_file,         \* storage_data.json
    saving,               \* per session: its call of save_storage_data
    last_finished,        \* the session whose save_storage_data returned last
    loaded                \* the uncached load_storage_data() made since the last
                          \* step of a save

vars == <<now_date, now_time, weekdays, time_str, sched_calls, storage_units,
          expiration_reminders, item_history, expired_items, expiring_warnings,
          scanned, times_reported, persisted, email_config, notification,
          schedule_info, manager_items, pressed, entered, db_storage_units,
          storage_file, saving, last_finished, loaded>>

schedVars == <<weekdays, time_str, sched_calls>>
clockVars == <<now_date, now_time>>
sessionVars == <<storage_units, expiration_reminders, item_history, persisted>>
scanVars == <<expired_items, expiring_warnings, scanned, times_reported>>
mailVars == <<email_config, notification>>
runVars == <<schedule_info, pressed, entered>>
dbVars == <<db_storage_units, storage_file, saving, last_finished, loaded>>

----------------------------------------------------------------------------
(* Bounds of the model *)

MaxSchedDay == 6     \* get_next_scheduled_time is called on days 0..MaxSchedDay
MaxHour == 9         \* schedule times are 7:00 .. MaxHour:00
MaxCalls == 2        \* calls of get_next_scheduled_time in one behaviour
MaxScanDay == 2      \* check_expiring_items is applied on days 0..MaxScanDay
MaxExpDay == 10      \* expiration dates of the inventories it is applied to
MaxScanItems == 2    \* items in an inventory it is applied to
MaxDay == 1          \* the session's clock runs over days 0..MaxDay
MaxQty == 2          \* quantities entered are 1..MaxQty
MaxHistory == 2      \* history entries written in one behaviour
MaxThreshold == 1    \* low quantity thresholds entered are 1..MaxThreshold
MaxCandidates == 2   \* length of a candidate list passed to the notification

Hours == 7..MaxHour
Ticks == (2 * 7)..(2 * MaxHour + 1)

----------------------------------------------------------------------------
(* Time utilities *)

\* date.isoweekday() in place of date.weekday(): 1 = Monday .. 7 = Sunday
WeekdayIso(date) == (date % 7) + 1

\* date.weekday(): 0 = Monday .. 6 = Sunday
Weekday(date) == date % 7

\* datetime.strptime(time_str, "%H:%M").time()
ParseTime(t) == 2 * t

\* None where a timestamp may stand
NoTimestamp == <<>>

\* datetime.now().strftime("%Y-%m-%d %H:%M:%S")
Timestamp(date, time) == <<date, time>>

----------------------------------------------------------------------------
(* get_next_scheduled_time, src/email_handler.py:164-192 *)

\* the bound of `for _ in range(8)`
ScanRange == 8

\* The loop testing the date before stepping it: the search starts at today.
RECURSIVE FindAllowedDayFromToday(_, _, _)
FindAllowedDayFromToday(next_date, wds, remaining) ==
    IF remaining = 0 THEN next_date
    ELSE IF (next_date % 7) \in wds THEN next_date
         ELSE FindAllowedDayFromToday(next_date + 1, wds, remaining - 1)

\* for _ in range(8): next_date += timedelta(days=1); if next_date.weekday() in weekdays: break
RECURSIVE FindAllowedDay(_, _, _)
FindAllowedDay(next_date, wds, remaining) ==
    IF remaining = 0 THEN next_date
    ELSE LET d == next_date + 1
         IN  IF Weekday(d) \in wds THEN d
             ELSE FindAllowedDay(d, wds, remaining - 1)

\* current.time() >= scheduled_time: the boundary counted as passed
TimeHasPassedAtBoundary(current_time, scheduled_time) == current_time >= scheduled_time

\* current.time() > scheduled_time
TimeHasPassed(current_time, scheduled_time) == current_time > scheduled_time

\* The function never raises for a weekday list: `raised` is FALSE on every path.
get_next_scheduled_time(wds, t, current_date, current_time) ==
    LET scheduled_time == ParseTime(t)
        next_date ==
            IF Weekday(current_date) \notin wds
               \/ (Weekday(current_date) \in wds
                   /\ TimeHasPassed(current_time, scheduled_time))
            THEN FindAllowedDay(current_date, wds, ScanRange)
            ELSE current_date
    IN  [raised |-> FALSE, date |-> next_date, time |-> scheduled_time]

----------------------------------------------------------------------------
(* Inventory data, src/main.py:95-122 *)

\* Names are sequences of characters (tokens): a reminder key is built by
\* string concatenation, so "Kyl" + "_" + "B_Milk" and "Kyl_B" + "_" + "Milk"
\* are the same key.
UnitNames == { <<"Kyl">>, <<"Kyl", "_", "B">> }
ItemNames == { <<"Milk">>, <<"B", "_", "Milk">> }

\* dict iteration order, abstracted to one fixed order of the keys
UnitOrder == << <<"Kyl">>, <<"Kyl", "_", "B">> >>
ItemOrder == << <<"Milk">>, <<"B", "_", "Milk">> >>

\* A date string: "iso" is zero-padded YYYY-MM-DD, "short" is an unpadded
\* spelling strptime also accepts (2024-3-5), "bad" does not parse.
DateStr(form, day) == [form |-> form, day |-> day]

\* date.strftime("%Y-%m-%d")
strftime(date) == DateStr("iso", date)

\* datetime.strptime(s, "%Y-%m-%d") raises ValueError
RaisesValueError(s) == s.form = "bad"

\* datetime.strptime(s, "%Y-%m-%d").date(), when it does not raise
strptime(s) == s.day

\* f"{storage_name}_{item_name}"
ReminderKey(storage_name, item_name) == storage_name \o <<"_">> \o item_name

ItemRecord(quantity, category, date_added, expiration_date) ==
    [quantity |-> quantity, category |-> category,
     date_added |-> date_added, expiration_date |-> expiration_date]

StorageUnit(type, contents) == [type |-> type, contents |-> contents]

----------------------------------------------------------------------------
(* check_expiring_items, src/main.py:247-290 *)

\* elif days_remaining <= 7
ExpiringWithinDays == 7

\* days_remaining <= 0: an item expiring today counted as expired
IsExpiredOrToday(days_remaining) == days_remaining <= 0

\* if days_remaining < 0
IsExpired(days_remaining) == days_remaining < 0

\* elif days_remaining <= 7
IsExpiringSoon(days_remaining) == days_remaining <= ExpiringWithinDays

abs(n) == IF n < 0 THEN 0 - n ELSE n

\* expired_items.append({...})
ExpiredEntry(storage_name, item_name, details, days_remaining) ==
    [item |-> item_name, unit |-> storage_name, days |-> abs(days_remaining),
     exp_date |-> strftime(strptime(details.expiration_date)),
     category |-> details.category]

\* expiration_warnings.append({...})
WarningEntry(storage_name, item_name, details, days_remaining) ==
    [item |-> item_name, unit |-> storage_name, days |-> days_remaining,
     exp_date |-> strftime(strptime(details.expiration_date)),
     key |-> ReminderKey(storage_name, item_name),
     category |-> details.category]

\* The body of the inner loop for one item: the entries it appends.
ScanItem(storage_name, item_name, details, reminders, current_date) ==
    IF RaisesValueError(details.expiration_date)
    THEN [expired |-> <<>>, warnings |-> <<>>]
    ELSE LET days_remaining == strptime(details.expiration_date) - current_date
         IN  IF IsExpired(days_remaining)
             THEN [expired |-> <<ExpiredEntry(storage_name, item_name, details, days_remaining)>>,
                   warnings |-> <<>>]
             ELSE IF IsExpiringSoon(days_remaining)
                     /\ ReminderKey(storage_name, item_name) \notin reminders
                  THEN [expired |-> <<>>,
                        warnings |-> <<WarningEntry(storage_name, item_name, details, days_remaining)>>]
                  ELSE [expired |-> <<>>, warnings |-> <<>>]

\* The two nested loops, from unit index u and item index i on; `lists`
\* holds expired_items and expiration_warnings as appended to so far.
RECURSIVE ScanFrom(_, _, _, _, _, _)
ScanFrom(units, reminders, current_date, u, i, lists) ==
    IF u > Len(UnitOrder) THEN lists
    ELSE IF i > Len(ItemOrder)
         THEN ScanFrom(units, reminders, current_date, u + 1, 1, lists)
    ELSE IF UnitOrder[u] \in DOMAIN units
            /\ ItemOrder[i] \in DOMAIN units[UnitOrder[u]].contents
         THEN LET one == ScanItem(UnitOrder[u], ItemOrder[i],
                                  units[UnitOrder[u]].contents[ItemOrder[i]],
                                  reminders, current_date)
              IN  ScanFrom(units, reminders, current_date, u, i + 1,
                           [expired |-> lists.expired \o one.expired,
                            warnings |-> lists.warnings \o one.warnings])
         ELSE ScanFrom(units, reminders, current_date, u, i + 1, lists)

check_expiring_items(units, reminders, current_date) ==
    ScanFrom(units, reminders, current_date, 1, 1,
             [expired |-> <<>>, warnings |-> <<>>])

----------------------------------------------------------------------------
(* StorageManager.get_expiring_items, src/models/storage.py:52-76 *)

\* expiring_items.append({...}): signed days, the date string as stored
ManagerEntry(unit_name, item_name, details, days_remaining) ==
    [item |-> item_name, unit |-> unit_name, days |-> days_remaining,
     exp_date |-> details.expiration_date, category |-> details.category,
     quantity |-> details.quantity]

\* The two nested loops from unit index u and item index i on; strptime is
\* not guarded, so a date that does not parse raises out of the method.
RECURSIVE ManagerFrom(_, _, _, _, _)
ManagerFrom(units, current_date, u, i, expiring_items) ==
    IF u > Len(UnitOrder) THEN [raised |-> FALSE, items |-> expiring_items]
    ELSE IF i > Len(ItemOrder)
         THEN ManagerFrom(units, current_date, u + 1, 1, expiring_items)
    ELSE IF UnitOrder[u] \in DOMAIN units
            /\ ItemOrder[i] \in DOMAIN units[UnitOrder[u]].contents
         THEN LET details == units[UnitOrder[u]].contents[ItemOrder[i]]
              IN  IF RaisesValueError(details.expiration_date)
                  THEN [raised |-> TRUE, items |-> <<>>]
                  ELSE LET days_remaining == strptime(details.expiration_date)
                                                - current_date
                       IN  ManagerFrom(units, current_date, u, i + 1,
                              IF IsExpiringSoon(days_remaining)
                              THEN Append(expiring_items,
                                          ManagerEntry(UnitOrder[u], ItemOrder[i],
                                                       details, days_remaining))
                              ELSE expiring_items)
         ELSE ManagerFrom(units, current_date, u, i + 1, expiring_items)

get_expiring_items(units, current_date) ==
    ManagerFrom(units, current_date, 1, 1, <<>>)

\* no call of get_expiring_items made
NoManagerCall == [called |-> FALSE, raised |-> FALSE, items |-> <<>>]

----------------------------------------------------------------------------
(* Notification config, email_config.yml as load_email_config reads it, *)
(* src/email_handler.py:14-25                                            *)

Preferences(expired, soon, low, removed, added, soon_days, threshold) ==
    [notify_expired |-> expired, notify_expiring_soon |-> soon,
     notify_low_quantity |-> low, notify_removed_items |-> removed,
     notify_added_items |-> added, expiring_soon_days |-> soon_days,
     low_quantity_threshold |-> threshold]

\* the default of config['email']['notifications'].get('preferences', {...})
DefaultPreferences == Preferences(TRUE, TRUE, FALSE, FALSE, FALSE, 7, 2)

\* preferences.get(key, default)
PrefGet(preferences, key, default) ==
    IF key \in DOMAIN preferences THEN preferences[key] ELSE default

Schedule(wds, t) == [weekdays |-> wds, time |-> t]

\* The file: `secrets` says that app_password and sender are written in it.
EmailConfig(recipient, schedule, has_preferences, preferences, last_sent, secrets) ==
    [recipient |-> recipient, schedule |-> schedule,
     has_preferences |-> has_preferences, preferences |-> preferences,
     last_sent |-> last_sent, secrets |-> secrets]

\* The file the application is installed with: a recipient and a schedule,
\* no preferences, nothing sent yet.
InstalledConfig ==
    EmailConfig("admin", Schedule(0..6, 8), FALSE, [k \in {} |-> TRUE],
                NoTimestamp, FALSE)

----------------------------------------------------------------------------
(* send_expiration_notification, src/email_handler.py:27-162 *)

\* config['email']['notifications'].get('preferences', {...})
LoadedPreferences(config) ==
    IF config.has_preferences THEN config.preferences ELSE DefaultPreferences

\* item.get('quantity', 0)
QuantityOf(item) == IF "quantity" \in DOMAIN item THEN item.quantity ELSE 0

\* if item['days'] < 0 and preferences.get('notify_expired', True)
GoesToExpired(item, preferences) ==
    item.days < 0 /\ PrefGet(preferences, "notify_expired", TRUE)

\* the filter without the preference test on the expiring branch
GoesToExpiringAlways(item, preferences) ==
    /\ ~GoesToExpired(item, preferences)
    /\ item.days >= 0
    /\ item.days <= PrefGet(preferences, "expiring_soon_days", 7)

\* elif item['days'] >= 0 and preferences.get('notify_expiring_soon', True):
\*     if item['days'] <= preferences.get('expiring_soon_days', 7)
GoesToExpiring(item, preferences) ==
    /\ ~GoesToExpired(item, preferences)
    /\ item.days >= 0
    /\ PrefGet(preferences, "notify_expiring_soon", TRUE)
    /\ item.days <= PrefGet(preferences, "expiring_soon_days", 7)

\* if preferences.get('notify_low_quantity', False):
\*     if item.get('quantity', 0) <= preferences.get('low_quantity_threshold', 2)
GoesToLowQuantity(item, preferences) ==
    /\ PrefGet(preferences, "notify_low_quantity", FALSE)
    /\ QuantityOf(item) <= PrefGet(preferences, "low_quantity_threshold", 2)

\* the three lists built by the loop over items
FilterItems(items, preferences) ==
    LET E(item) == GoesToExpired(item, preferences)
        S(item) == GoesToExpiring(item, preferences)
        L(item) == GoesToLowQuantity(item, preferences)
    IN  [expired_items |-> SelectSeq(items, E),
         expiring_items |-> SelectSeq(items, S),
         low_quantity_items |-> SelectSeq(items, L)]

\* if not (expired_items or expiring_items or low_quantity_items)
NothingToNotify(lists) ==
    /\ lists.expired_items = <<>>
    /\ lists.expiring_items = <<>>
    /\ lists.low_quantity_items = <<>>

\* the item names of a list, as the body's <li><strong>{item['item']}</strong>
NamesOf(items) == [k \in 1..Len(items) |-> items[k].item]

\* the three sections of the HTML body
MessageBody(lists, preferences) ==
    [expired |-> IF PrefGet(preferences, "notify_expired", TRUE)
                 THEN NamesOf(lists.expired_items) ELSE <<>>,
     expiring |-> IF PrefGet(preferences, "notify_expiring_soon", TRUE)
                  THEN NamesOf(lists.expiring_items) ELSE <<>>,
     low_quantity |-> IF PrefGet(preferences, "notify_low_quantity", FALSE)
                      THEN NamesOf(lists.low_quantity_items) ELSE <<>>]

EmptyBody == [expired |-> <<>>, expiring |-> <<>>, low_quantity |-> <<>>]

\* What the SMTP exchange of the try block can do: succeed, raise before
\* send_message (connect, login), or raise in server.quit() after the send.
SmtpOutcomes == {"ok", "login_fails", "quit_fails"}

\* The call send_expiration_notification(items, recipient) with the file
\* `config`, at the time `sent_at`, with the SMTP exchange ending `outcome`.
\* Returns the value returned, the lists, what the transport did and the
\* file as the call leaves it.
send_expiration_notification(items, config, outcome, sent_at) ==
    LET preferences == LoadedPreferences(config)
        lists == FilterItems(items, preferences)
    IN  IF NothingToNotify(lists)
        THEN [returned |-> TRUE, lists |-> lists, transport_invoked |-> FALSE,
              message_sent |-> FALSE, body |-> EmptyBody, config |-> config]
        ELSE [returned |-> outcome = "ok", lists |-> lists,
              transport_invoked |-> TRUE,
              message_sent |-> outcome \in {"ok", "quit_fails"},
              body |-> MessageBody(lists, preferences),
              config |-> IF outcome = "ok"
                         THEN [config EXCEPT !.last_sent = sent_at, !.secrets = TRUE]
                         ELSE config]

\* no call of send_expiration_notification in the last step
NoNotification ==
    [called |-> FALSE, items |-> <<>>, preferences |-> DefaultPreferences,
     returned |-> FALSE,
     lists |-> [expired_items |-> <<>>, expiring_items |-> <<>>,
                low_quantity_items |-> <<>>],
     transport_invoked |-> FALSE, message_sent |-> FALSE, body |-> EmptyBody]

\* the record of a call: its arguments, the preferences it read and its result
NotificationOf(items, config, r) ==
    [called |-> TRUE, items |-> items, preferences |-> LoadedPreferences(config),
     returned |-> r.returned, lists |-> r.lists,
     transport_invoked |-> r.transport_invoked, message_sent |-> r.message_sent,
     body |-> r.body]

----------------------------------------------------------------------------
(* get_email_schedule_info, src/email_handler.py:241-273 *)

\* return None, None
NoScheduleInfo == [last_sent |-> NoTimestamp, next_send |-> NoTimestamp]

\* The call with the file `config` at the clock current_date, current_time:
\* next_send is get_next_scheduled_time(weekdays, time), which reads
\* datetime.now().
get_email_schedule_info(config, current_date, current_time) ==
    IF config.last_sent = NoTimestamp
    THEN NoScheduleInfo
    ELSE LET r == get_next_scheduled_time(config.schedule.weekdays,
                                          config.schedule.time,
                                          current_date, current_time)
         IN  [last_sent |-> config.last_sent,
              next_send |-> Timestamp(r.date, r.time)]

----------------------------------------------------------------------------
(* Persistence of the inventory, src/database.py *)

\* storage_data.json: absent, or holding the inventory `data`
NoFile == [exists |-> FALSE, data |-> <<>>]

FileOf(data) == [exists |-> TRUE, data |-> data]

\* the key and the value that insert_one adds to the document it stores
IdKey == <<"_id">>
ObjectId == <<"ObjectId">>

\* db.storage_units.insert_one(json_data): the document stored
StoredDocument(data) ==
    [k \in DOMAIN data \cup {IdKey} |-> IF k = IdKey THEN ObjectId ELSE data[k]]

\* doc.pop('_id', None)
PopId(doc) == [k \in DOMAIN doc \ {IdKey} |-> doc[k]]

\* what a call can find the database to be: get_database() returns the
\* database and the operation succeeds, the operation raises, or
\* get_database() returns None
DatabaseOutcomes == {"available", "raises", "unreachable"}

\* what a call can find the local file to be: readable and writable, or not
FileOutcomes == {"ok", "fails"}

\* load_local_storage_data(), src/database.py:218-227
load_local_storage_data(file, file_outcome) ==
    IF file_outcome = "ok" /\ file.exists THEN file.data ELSE <<>>

\* load_storage_data() past its cache, src/database.py:61-77; `first` is the
\* position in the collection of the document that find() returns first
load_storage_data(documents, file, db_outcome, file_outcome, first) ==
    IF db_outcome = "available"
    THEN [source |-> "db",
          data |-> IF documents # <<>> THEN PopId(documents[first]) ELSE <<>>]
    ELSE [source |-> "file", data |-> load_local_storage_data(file, file_outcome)]

\* a session that is not saving
NotSaving == [pc |-> "idle", data |-> <<>>, returned |-> FALSE, path |-> ""]

\* the except branch and the else branch of save_storage_data,
\* src/database.py:97-112: the local file is written and True returned, or
\* the write fails and False is returned
LocalSave(data, file, file_outcome) ==
    [file |-> IF file_outcome = "ok" THEN FileOf(data) ELSE file,
     saving |-> [pc |-> "done", data |-> data, returned |-> file_outcome = "ok",
                 path |-> "file"]]

\* no load since the last step of a save
NotLoaded == [called |-> FALSE, source |-> "", data |-> <<>>]

\* the sessions that save
Sessions == {"A", "B"}

----------------------------------------------------------------------------
(* Values shared by the specifications *)

AllSlots == UnitNames \X ItemNames

AllReminderKeys == { ReminderKey(sl[1], sl[2]) : sl \in AllSlots }

NotReported == [k \in AllReminderKeys |-> 0]

\* The count of the scans since the last clearing of the reminders that
\* returned each key, after one more scan that returned `warnings`; counted
\* up to 2.
CountReported(counts, warnings) ==
    [k \in DOMAIN counts |->
        IF \E n \in 1..Len(warnings) : warnings[n].key = k
        THEN (IF counts[k] < 2 THEN counts[k] + 1 ELSE 2)
        ELSE counts[k]]

EmptyStore ==
    [storage_units |-> <<>>, item_history |-> <<>>, expiration_reminders |-> {}]

\* the arguments and calls of get_next_scheduled_time, unused
SchedIdle == weekdays = {} /\ time_str = 7 /\ sched_calls = <<>>

\* a session that starts with every reminder key marked as notified
SessionWithReminders ==
    /\ storage_units = <<>>
    /\ expiration_reminders = AllReminderKeys
    /\ item_history = <<>>
    /\ persisted = EmptyStore

\* an empty session, src/main.py:111-122
SessionEmpty ==
    /\ storage_units = <<>>
    /\ expiration_reminders = {}
    /\ item_history = <<>>
    /\ persisted = EmptyStore

\* no scan has run
ScanIdle ==
    /\ expired_items = <<>>
    /\ expiring_warnings = <<>>
    /\ scanned = FALSE
    /\ times_reported = NotReported

MailIdle == email_config = InstalledConfig /\ notification = NoNotification

\* nothing entered: a run with no form submitted, a button without inputs
NoInput == <<>>

\* an empty database, no local file, no call of save_storage_data or
\* load_storage_data
DbIdle ==
    /\ db_storage_units = <<>>
    /\ storage_file = NoFile
    /\ saving = [s \in Sessions |-> NotSaving]
    /\ last_finished = ""
    /\ loaded = NotLoaded

\* no script run yet, no call of the StorageManager
RunIdle ==
    /\ schedule_info = NoScheduleInfo
    /\ pressed = ""
    /\ entered = NoInput
    /\ manager_items = NoManagerCall

----------------------------------------------------------------------------
(* SchedSpec: get_next_scheduled_time as a function; the inputs are drawn *)
(* in Init                                                                *)

SchedInit ==
    /\ now_date \in 0..MaxSchedDay
    /\ now_time \in Ticks
    /\ weekdays \in SUBSET (0..6)
    /\ time_str \in Hours
    /\ sched_calls = <<>>
    /\ SessionEmpty
    /\ ScanIdle
    /\ MailIdle
    /\ RunIdle
    /\ DbIdle

\* A call of get_next_scheduled_time(weekdays, time_str) at the current clock.
CallGetNextScheduledTime ==
    /\ Len(sched_calls) < MaxCalls
    /\ sched_calls' = Append(sched_calls,
            [now_date |-> now_date, now_time |-> now_time,
             result |-> get_next_scheduled_time(weekdays, time_str, now_date, now_time)])
    /\ UNCHANGED <<weekdays, time_str>>
    /\ UNCHANGED <<clockVars, sessionVars, scanVars, mailVars, runVars, manager_items,
                   dbVars>>

\* The clock reaches the send time the last call returned.
ClockReachesSendTime ==
    /\ Len(sched_calls) >= 1
    /\ Len(sched_calls) < MaxCalls
    /\ LET r == sched_calls[Len(sched_calls)].result
       IN  /\ <<now_date, now_time>> # <<r.date, r.time>>
           /\ now_date' = r.date
           /\ now_time' = r.time
    /\ UNCHANGED <<schedVars, dbVars, sessionVars, scanVars, mailVars, runVars, manager_items>>

SchedNext == CallGetNextScheduledTime \/ ClockReachesSendTime

SchedSpec == SchedInit /\ [][SchedNext]_vars

----------------------------------------------------------------------------
(* ScanSpec: check_expiring_items as a function; the inventory, the       *)
(* reminder map and the date are drawn in Init                            *)

Category == <<"emoji", "Mejeri">>
UnitType == <<"emoji", "Kylskap">>

ScanDateStrs ==
    { DateStr("iso", d) : d \in 0..MaxExpDay }
        \cup { DateStr("short", 0), DateStr("bad", 0) }

\* The inventory holding the items of `slots` (a set of <<unit, item>>) with
\* the expiration dates exp[slot]; a unit exists when it holds an item or is
\* listed in `empty`.
InventoryOf(slots, exp, empty) ==
    [u \in {sl[1] : sl \in slots} \cup empty |->
        StorageUnit(UnitType,
            [i \in {sl[2] : sl \in {x \in slots : x[1] = u}} |->
                ItemRecord(1, Category, 0, exp[<<u, i>>])])]

ScanInventories ==
    UNION { { InventoryOf(slots, exp, empty) :
                exp \in [slots -> ScanDateStrs],
                empty \in SUBSET (UnitNames \ {sl[1] : sl \in slots}) } :
            slots \in { sl \in SUBSET AllSlots : Cardinality(sl) <= MaxScanItems } }

ScanInit ==
    /\ now_date \in 0..MaxScanDay
    /\ now_time = 2 * 7
    /\ SchedIdle
    /\ storage_units \in ScanInventories
    /\ expiration_reminders \in SUBSET AllReminderKeys
    /\ item_history = <<>>
    /\ persisted = EmptyStore
    /\ ScanIdle
    /\ MailIdle
    /\ RunIdle
    /\ DbIdle

\* a scan that marks the keys it warns about as notified
ApplyScanMarking ==
    /\ ~scanned
    /\ ~manager_items.called
    /\ LET r == check_expiring_items(storage_units, expiration_reminders, now_date)
       IN  /\ expired_items' = r.expired
           /\ expiring_warnings' = r.warnings
           /\ times_reported' = CountReported(times_reported, r.warnings)
           /\ expiration_reminders' =
                 expiration_reminders
                    \cup { r.warnings[k].key : k \in 1..Len(r.warnings) }
    /\ scanned' = TRUE
    /\ UNCHANGED <<schedVars, dbVars, clockVars, storage_units, item_history, persisted,
                   mailVars, runVars, manager_items>>

\* expired_items, expiring_warnings = check_expiring_items(); each behaviour
\* applies one of the two scanning functions to the inventory drawn
ApplyScan ==
    /\ ~scanned
    /\ ~manager_items.called
    /\ LET r == check_expiring_items(storage_units, expiration_reminders, now_date)
       IN  /\ expired_items' = r.expired
           /\ expiring_warnings' = r.warnings
           /\ times_reported' = CountReported(times_reported, r.warnings)
    /\ scanned' = TRUE
    /\ UNCHANGED <<schedVars, dbVars, clockVars, sessionVars, mailVars, runVars, manager_items>>

\* expiring = StorageManager().get_expiring_items()
CallGetExpiringItems ==
    /\ ~scanned
    /\ ~manager_items.called
    /\ LET r == get_expiring_items(storage_units, now_date)
       IN  manager_items' = [called |-> TRUE, raised |-> r.raised, items |-> r.items]
    /\ UNCHANGED <<schedVars, dbVars, clockVars, sessionVars, scanVars, mailVars, runVars>>

ScanNext == ApplyScan \/ CallGetExpiringItems

ScanSpec == ScanInit /\ [][ScanNext]_vars

----------------------------------------------------------------------------
(* NotifySpec: send_expiration_notification as a function; the file is    *)
(* drawn in Init, the candidate list and the SMTP outcome at the call     *)

\* expiring_soon_days entered in the number input (1..30)
SoonDayChoices == {7, 8}

\* notification_preferences, src/main.py:846-909: the two thresholds are
\* asked for only when their toggle is set, and are 7 and 2 otherwise.
PreferenceChoices ==
    { Preferences(e, s, l, FALSE, FALSE, IF s THEN d ELSE 7, IF l THEN t ELSE 2) :
        e \in BOOLEAN, s \in BOOLEAN, l \in BOOLEAN,
        d \in SoonDayChoices, t \in 1..MaxThreshold }

\* Candidate items: shaped as check_expiring_items returns them (no
\* quantity, days >= 0) or as StorageManager.get_expiring_items returns them
\* (quantity, signed days).
CandidateDays == {-1, 0, 1, 7, 8}

CandidateItems ==
    { [item |-> i, unit |-> <<"Kyl">>, days |-> d, exp_date |-> strftime(0),
       category |-> Category] : i \in ItemNames, d \in CandidateDays \ {-1} }
    \cup
    { [item |-> i, unit |-> <<"Kyl">>, days |-> d, exp_date |-> strftime(0),
       category |-> Category, quantity |-> q] :
         i \in ItemNames, d \in CandidateDays, q \in {1, MaxThreshold + 1} }

CandidateLists ==
    UNION { [1..n -> CandidateItems] : n \in 0..MaxCandidates }

NotifyInit ==
    /\ now_date = 0
    /\ now_time = 2 * 7 + 1
    /\ SchedIdle
    /\ SessionEmpty
    /\ ScanIdle
    /\ \E last_sent \in {NoTimestamp, Timestamp(0, 2 * 7)} :
         \/ email_config = [InstalledConfig EXCEPT !.last_sent = last_sent]
         \/ \E p \in PreferenceChoices \cup {[k \in {} |-> TRUE]} :
               email_config = [InstalledConfig EXCEPT !.last_sent = last_sent,
                                                      !.has_preferences = TRUE,
                                                      !.preferences = p]
    /\ notification = NoNotification
    /\ RunIdle
    /\ DbIdle

\* send_expiration_notification(items, recipient)
CallSendExpirationNotification ==
    /\ ~notification.called
    /\ \E items \in CandidateLists, outcome \in SmtpOutcomes :
         LET r == send_expiration_notification(items, email_config, outcome,
                                               Timestamp(now_date, now_time))
         IN  /\ notification' = NotificationOf(items, email_config, r)
             /\ email_config' = r.config
    /\ UNCHANGED <<schedVars, dbVars, clockVars, sessionVars, scanVars, runVars, manager_items>>

\* 'Skicka test-email' of the admin component, send_test_notification,
\* src/components/admin.py:378-386: send_expiration_notification([], recipient);
\* "Test-email skickat!" is shown when the call returns True.
SendTestNotification ==
    /\ ~notification.called
    /\ email_config.recipient # ""
    /\ \E outcome \in SmtpOutcomes :
         LET r == send_expiration_notification(<<>>, email_config, outcome,
                                               Timestamp(now_date, now_time))
         IN  /\ notification' = NotificationOf(<<>>, email_config, r)
             /\ email_config' = r.config
    /\ pressed' = "send_test_notification"
    /\ UNCHANGED <<schedVars, dbVars, clockVars, sessionVars, scanVars, schedule_info,
                   entered, manager_items>>

NotifyNext == CallSendExpirationNotification \/ SendTestNotification

NotifySpec == NotifyInit /\ [][NotifyNext]_vars

----------------------------------------------------------------------------
(* Spec: a session of the application, src/main.py *)

\* dict with d[key] = value set
DictSet(d, key, value) ==
    [k \in DOMAIN d \cup {key} |-> IF k = key THEN value ELSE d[k]]

\* del d[key]
DictDel(d, key) == [k \in DOMAIN d \ {key} |-> d[k]]

\* k.startswith(prefix)
StartsWith(k, prefix) ==
    Len(k) >= Len(prefix) /\ SubSeq(k, 1, Len(prefix)) = prefix

\* strip_emoji(text): ' '.join(text.split()[1:]) if text.split() else text
strip_emoji(text) == IF text = <<>> THEN text ELSE Tail(text)

\* the history_entry of add_to_history, src/main.py:178-189
HistoryEntry(action, item_name, category, quantity, storage_unit, expired, exp_date, timestamp) ==
    [timestamp |-> timestamp, action |-> action, item |-> item_name,
     category |-> strip_emoji(category), quantity |-> quantity,
     storage_unit |-> storage_unit, expired |-> expired,
     expiration_date |-> exp_date]

\* the new entry put in front of the history
InsertEntryFirst(history, history_entry) == <<history_entry>> \o history

\* st.session_state.item_history.append(history_entry), src/main.py:191
AppendEntry(history, history_entry) == Append(history, history_entry)

\* no date given: exp_date=None
NoDate == DateStr("none", 0)

\* save_data(): the three documents written to the store, src/main.py:205-209
Saved(units, history, reminders) ==
    [storage_units |-> units, item_history |-> history,
     expiration_reminders |-> reminders]

\* days from today offered for the expiration date of a new item
\* (st.date_input with min_value today)
NewItemOffsets == {0, 8}

\* The sidebar of a script run: check_expiring_items() called `times` times
\* on the session as the run finds it, src/main.py:515.
SidebarScan(times) ==
    LET r == check_expiring_items(storage_units, expiration_reminders, now_date)
        once == CountReported(times_reported, r.warnings)
    IN  /\ expired_items' = r.expired
        /\ expiring_warnings' = r.warnings
        /\ scanned' = TRUE
        /\ times_reported' = IF times = 1 THEN once ELSE CountReported(once, r.warnings)

\* The sidebar of a script run whose handler ends in st.rerun(): the scan of
\* the run, then the scan of the run that follows, on the session the handler
\* left (`units`, `reminders`); `counts` is the count after the first scan.
SidebarScanRerun(units, reminders, counts) ==
    LET r == check_expiring_items(units, reminders, now_date)
    IN  /\ expired_items' = r.expired
        /\ expiring_warnings' = r.warnings
        /\ scanned' = TRUE
        /\ times_reported' = CountReported(counts, r.warnings)

\* the count of reports after the sidebar scan of the run in progress
CountedNow ==
    CountReported(times_reported,
        check_expiring_items(storage_units, expiration_reminders, now_date).warnings)

\* What a script run records besides its handler: the button pressed, and the
\* email status of the admin tab, src/main.py:733, read from the file `config`.
AdminRun(button, config) ==
    /\ pressed' = button
    /\ entered' = NoInput
    /\ schedule_info' = get_email_schedule_info(config, now_date, now_time)
    /\ UNCHANGED manager_items

\* the same for a handler that reads the form inputs `input`
AdminRunWith(button, config, input) ==
    /\ pressed' = button
    /\ entered' = input
    /\ schedule_info' = get_email_schedule_info(config, now_date, now_time)
    /\ UNCHANGED manager_items

\* the session as the application starts it: empty, src/main.py:111-122, and
\* left empty by the load at src/main.py:504, whose test is then false
Init ==
    /\ now_date = 0
    /\ now_time = 2 * 7 + 1
    /\ SchedIdle
    /\ SessionEmpty
    /\ ScanIdle
    /\ MailIdle
    /\ RunIdle
    /\ DbIdle

\* A script run with no button pressed.
Rerun ==
    /\ SidebarScan(1)
    /\ AdminRun("", email_config)
    /\ notification' = NoNotification
    /\ UNCHANGED <<schedVars, dbVars, clockVars, sessionVars, email_config>>

\* Midnight passes; no notification is sent in this step.
NextDay ==
    /\ now_date < MaxDay
    /\ now_date' = now_date + 1
    /\ notification' = NoNotification
    /\ UNCHANGED <<now_time, schedVars, dbVars, sessionVars, scanVars, email_config, runVars,
                   manager_items>>

\* 'Lägg till förvaringsenhet', src/main.py:557-567, with a name of `names`
\* and a type of `types`
AddUnitTyped(names, types) ==
    \E unit_name \in names, unit_type \in types :
        /\ SidebarScan(1)
        /\ AdminRunWith("add_unit", email_config,
                        [unit_name |-> unit_name, unit_type |-> unit_type])
        /\ IF unit_name \notin DOMAIN storage_units
           THEN /\ storage_units' = DictSet(storage_units, unit_name,
                                            StorageUnit(unit_type, <<>>))
                /\ persisted' = Saved(storage_units', item_history, expiration_reminders)
           ELSE UNCHANGED <<storage_units, persisted>>
        /\ notification' = NoNotification
        /\ UNCHANGED <<expiration_reminders, item_history, schedVars, dbVars, clockVars,
                       email_config>>

\* the same with the type the selectbox opens with
AddUnitNamed(names) == AddUnitTyped(names, {UnitType})

AddUnit == AddUnitNamed(UnitNames)

\* 'Lägg till vara', src/main.py:1042-1052, with an item name of `names` and
\* the quantity, category and days to the expiration date of a form of `forms`
AddItemOf(names, forms) ==
    \E selected_unit \in DOMAIN storage_units, new_item \in names, form \in forms :
        LET quantity == form[1]
            category == form[2]
            exp_date == now_date + form[3]
        IN  /\ Len(item_history) < MaxHistory
            /\ SidebarScan(1)
            /\ AdminRunWith("add_item", email_config,
                            [unit_name |-> selected_unit, item_name |-> new_item,
                             quantity |-> quantity, category |-> category,
                             exp_date |-> exp_date])
            /\ storage_units' =
                 [storage_units EXCEPT ![selected_unit].contents =
                    DictSet(@, new_item,
                            ItemRecord(quantity, category, strftime(now_date),
                                       strftime(exp_date)))]
            /\ item_history' = AppendEntry(item_history,
                    HistoryEntry("added", new_item, category, quantity, selected_unit,
                                 FALSE, NoDate, Timestamp(now_date, now_time)))
            /\ persisted' = Saved(storage_units', item_history', expiration_reminders)
            /\ notification' = NoNotification
            /\ UNCHANGED <<expiration_reminders, schedVars, dbVars, clockVars, email_config>>

\* the same with every quantity and expiration date offered, one category
AddItemNamed(names) ==
    AddItemOf(names, (1..MaxQty) \X {Category} \X NewItemOffsets)

AddItem == AddItemNamed(ItemNames)

\* 'Bekräfta' of the removal selector, src/main.py:1085-1113: the quantity
\* input offers 1..details['quantity']; the handler ends in st.rerun().
RemoveItem ==
    \E selected_unit \in DOMAIN storage_units :
      \E item \in DOMAIN storage_units[selected_unit].contents :
        LET details == storage_units[selected_unit].contents[item]
        IN  \E remove_quantity \in 1..details.quantity :
              /\ Len(item_history) < MaxHistory
              /\ item_history' = AppendEntry(item_history,
                    HistoryEntry("removed", item, details.category, remove_quantity,
                                 selected_unit,
                                 strptime(details.expiration_date) < now_date,
                                 details.expiration_date,
                                 Timestamp(now_date, now_time)))
              /\ storage_units' =
                   IF remove_quantity = details.quantity
                   THEN [storage_units EXCEPT ![selected_unit].contents =
                            DictDel(@, item)]
                   ELSE [storage_units EXCEPT ![selected_unit].contents[item].quantity =
                            @ - remove_quantity]
              /\ persisted' = Saved(storage_units', item_history', expiration_reminders)
              /\ SidebarScanRerun(storage_units', expiration_reminders, CountedNow)
              /\ AdminRun("confirm_remove", email_config)
              /\ notification' = NoNotification
              /\ UNCHANGED <<expiration_reminders, schedVars, dbVars, clockVars, email_config>>

\* quantity=None, the default of StorageManager.remove_item
NoQuantity == 0

\* remove_item that deletes only when no quantity is given
remove_item_subtracting(units, unit_name, item_name, quantity) ==
    IF unit_name \in DOMAIN units /\ item_name \in DOMAIN units[unit_name].contents
    THEN [returned |-> TRUE,
          units |-> IF quantity = NoQuantity
                    THEN [units EXCEPT ![unit_name].contents = DictDel(@, item_name)]
                    ELSE [units EXCEPT ![unit_name].contents[item_name].quantity =
                             @ - quantity]]
    ELSE [returned |-> FALSE, units |-> units]

\* StorageManager.remove_item(unit_name, item_name, quantity),
\* src/models/storage.py:39-50: the value returned and the inventory it leaves
remove_item(units, unit_name, item_name, quantity) ==
    IF unit_name \in DOMAIN units /\ item_name \in DOMAIN units[unit_name].contents
    THEN [returned |-> TRUE,
          units |-> IF quantity = NoQuantity
                       \/ quantity >= units[unit_name].contents[item_name].quantity
                    THEN [units EXCEPT ![unit_name].contents = DictDel(@, item_name)]
                    ELSE [units EXCEPT ![unit_name].contents[item_name].quantity =
                             @ - quantity]]
    ELSE [returned |-> FALSE, units |-> units]

\* the quantities a caller passes to remove_item: none, or 1..MaxQty + 1
RemoveQuantities == {NoQuantity} \cup (1..(MaxQty + 1))

\* A call storage_mgr.remove_item(unit_name, item_name, quantity) on the
\* session; save_storage_data writes the inventory only.
CallRemoveItem ==
    \E unit_name \in UnitNames, item_name \in ItemNames, quantity \in RemoveQuantities :
        LET r == remove_item(storage_units, unit_name, item_name, quantity)
        IN  /\ r.returned
            /\ storage_units' = r.units
            /\ persisted' = [persisted EXCEPT !.storage_units = r.units]
            /\ pressed' = "storage_mgr.remove_item"
            /\ entered' = [unit_name |-> unit_name, item_name |-> item_name,
                            quantity |-> quantity]
            /\ UNCHANGED <<expiration_reminders, item_history, schedVars, dbVars, clockVars,
                           scanVars, mailVars, schedule_info, manager_items>>

\* 'Ta bort förvaringsenhet', src/main.py:1122-1140; ends in st.rerun()
RemoveUnit ==
    \E selected_unit \in DOMAIN storage_units :
        /\ storage_units' = DictDel(storage_units, selected_unit)
        /\ expiration_reminders' =
             { k \in expiration_reminders : ~StartsWith(k, selected_unit \o <<"_">>) }
        /\ persisted' = Saved(storage_units', item_history, expiration_reminders')
        /\ SidebarScanRerun(storage_units', expiration_reminders', CountedNow)
        /\ AdminRun("remove_unit", email_config)
        /\ notification' = NoNotification
        /\ UNCHANGED <<item_history, schedVars, dbVars, clockVars, email_config>>

\* 'Rensa förvaringsenheter', src/main.py:610-613
ClearStorageUnits ==
    /\ SidebarScan(1)
    /\ AdminRun("clear_storage_units", email_config)
    /\ storage_units' = <<>>
    /\ persisted' = Saved(storage_units', item_history, expiration_reminders)
    /\ notification' = NoNotification
    /\ UNCHANGED <<expiration_reminders, item_history, schedVars, dbVars, clockVars,
                   email_config>>

\* 'Rensa påminnelser', src/main.py:615-618, after the sidebar scan of the
\* run; the count of reports starts again at the clearing.
ClearReminders ==
    /\ LET r == check_expiring_items(storage_units, expiration_reminders, now_date)
       IN  /\ expired_items' = r.expired
           /\ expiring_warnings' = r.warnings
    /\ scanned' = TRUE
    /\ times_reported' = NotReported
    /\ AdminRun("clear_reminders", email_config)
    /\ expiration_reminders' = {}
    /\ persisted' = Saved(storage_units, item_history, expiration_reminders')
    /\ notification' = NoNotification
    /\ UNCHANGED <<storage_units, item_history, schedVars, dbVars, clockVars, email_config>>

\* 'Rensa historik', src/main.py:620-623
ClearHistory ==
    /\ SidebarScan(1)
    /\ AdminRun("clear_history", email_config)
    /\ item_history' = <<>>
    /\ persisted' = Saved(storage_units, item_history', expiration_reminders)
    /\ notification' = NoNotification
    /\ UNCHANGED <<storage_units, expiration_reminders, schedVars, dbVars, clockVars,
                   email_config>>

\* 'Rensa ALL data' with the confirmation ticked, src/main.py:630-638; ends in
\* st.rerun(), whose scan finds the session empty
ClearAllData ==
    /\ storage_units' = <<>>
    /\ expiration_reminders' = {}
    /\ item_history' = <<>>
    /\ persisted' = Saved(storage_units', item_history', expiration_reminders')
    /\ SidebarScanRerun(storage_units', expiration_reminders', NotReported)
    /\ AdminRun("clear_all", email_config)
    /\ notification' = NoNotification
    /\ UNCHANGED <<schedVars, dbVars, clockVars, email_config>>

\* 'Spara inställningar', src/main.py:912-925; st.rerun() runs the script again
SavePreferences ==
    \E notification_preferences \in PreferenceChoices :
        /\ email_config.recipient # ""
        /\ SidebarScan(2)
        /\ email_config' = [email_config EXCEPT !.has_preferences = TRUE,
                                                 !.preferences = notification_preferences,
                                                 !.secrets = TRUE]
        /\ AdminRun("save_preferences", email_config')
        /\ notification' = NoNotification
        /\ UNCHANGED <<schedVars, dbVars, clockVars, sessionVars>>

\* 'Skicka notifiering nu', src/main.py:944-973.  config.copy() is a shallow
\* copy: setting last_sent in temp_config sets it in config, so the file
\* written before the call and the file "restored" after it are the same.
SendNotificationNow ==
    \E outcome \in SmtpOutcomes :
        LET r == check_expiring_items(storage_units, expiration_reminders, now_date)
            all_items == r.expired \o r.warnings
            temp_config == [email_config EXCEPT !.last_sent = NoTimestamp,
                                                !.secrets = TRUE]
            sent == send_expiration_notification(all_items, temp_config, outcome,
                                                 Timestamp(now_date, now_time))
        IN  /\ email_config.recipient # ""
            /\ SidebarScan(2)
            /\ AdminRun("send_now", email_config)
            /\ IF all_items # <<>>
               THEN /\ notification' = NotificationOf(all_items, temp_config, sent)
                    /\ email_config' = temp_config
               ELSE /\ notification' = NoNotification
                    /\ email_config' = email_config
            /\ UNCHANGED <<schedVars, dbVars, clockVars, sessionVars>>

\* 'Skicka test-email', src/main.py:778-796: the file is written with
\* last_sent None, the notification is sent, and the file is written again
\* with the last_sent that get_email_schedule_info returned at line 733.
SendTestEmail ==
    \E outcome \in SmtpOutcomes :
        LET r == check_expiring_items(storage_units, expiration_reminders, now_date)
            all_items == r.expired \o r.warnings
            last_sent ==
                get_email_schedule_info(email_config, now_date, now_time).last_sent
            test_config == [email_config EXCEPT !.last_sent = NoTimestamp,
                                                !.secrets = TRUE]
            sent == send_expiration_notification(all_items, test_config, outcome,
                                                 Timestamp(now_date, now_time))
        IN  /\ email_config.recipient # ""
            /\ SidebarScan(2)
            /\ AdminRun("test_email", email_config)
            /\ IF all_items # <<>>
               THEN /\ notification' = NotificationOf(all_items, test_config, sent)
                    /\ email_config' = [test_config EXCEPT !.last_sent = last_sent]
               ELSE /\ notification' = NoNotification
                    /\ email_config' = email_config
            /\ UNCHANGED <<schedVars, dbVars, clockVars, sessionVars>>

\* the weekday list of "Alla dagar", the selection the form opens with,
\* src/main.py:807-817
WeekdayChoices == { 0..6 }

\* The preference widgets as the form opens them, src/main.py:846-898: each
\* shows the stored value, or its default when none is stored.
WidgetDefaults(config) ==
    LET stored == IF config.has_preferences THEN config.preferences
                  ELSE [k \in {} |-> TRUE]
    IN  Preferences(PrefGet(stored, "notify_expired", TRUE),
                    PrefGet(stored, "notify_expiring_soon", TRUE),
                    PrefGet(stored, "notify_low_quantity", FALSE),
                    PrefGet(stored, "notify_removed_items", FALSE),
                    PrefGet(stored, "notify_added_items", FALSE),
                    PrefGet(stored, "expiring_soon_days", 7),
                    PrefGet(stored, "low_quantity_threshold", 2))

\* 'Aktivera email-notifieringar', src/main.py:928-941, with the preference
\* widgets left as the form opened them and the default send time "08:00":
\* schedule_daily_notification writes the notification section anew
\* (last_sent None), then the first notification is sent.
Activate ==
    \E wds \in WeekdayChoices, outcome \in SmtpOutcomes :
        LET notification_preferences == WidgetDefaults(email_config)
            scheduled == EmailConfig("admin", Schedule(wds, 8), TRUE,
                                     notification_preferences, NoTimestamp, TRUE)
            r == check_expiring_items(storage_units, expiration_reminders, now_date)
            all_items == r.expired \o r.warnings
            sent == send_expiration_notification(all_items, scheduled, outcome,
                                                 Timestamp(now_date, now_time))
        IN  /\ email_config.recipient # ""
            /\ SidebarScan(2)
            /\ AdminRun("activate", email_config)
            /\ IF all_items # <<>>
               THEN /\ notification' = NotificationOf(all_items, scheduled, sent)
                    /\ email_config' = sent.config
               ELSE /\ notification' = NoNotification
                    /\ email_config' = scheduled
            /\ UNCHANGED <<schedVars, dbVars, clockVars, sessionVars>>

\* 'Återställ senaste skickad', src/main.py:770-775; ends in st.rerun()
ResetLastSent ==
    /\ email_config.recipient # ""
    /\ SidebarScan(2)
    /\ email_config' = [email_config EXCEPT !.last_sent = NoTimestamp,
                                             !.secrets = TRUE]
    /\ AdminRun("reset_last_sent", email_config')
    /\ notification' = NoNotification
    /\ UNCHANGED <<schedVars, dbVars, clockVars, sessionVars>>

Next ==
    \/ Rerun
    \/ NextDay
    \/ AddUnit
    \/ AddItem
    \/ ClearReminders

Spec == Init /\ [][Next]_vars

----------------------------------------------------------------------------
(* StoreSpec: the session with the handlers that change the inventory and *)
(* the history, over one storage unit and one item name, within one day   *)

StoreAddUnit == AddUnitNamed({<<"Kyl">>})

StoreAddItem == AddItemNamed({<<"Milk">>})

StoreNext ==
    \/ StoreAddUnit
    \/ StoreAddItem
    \/ RemoveItem
    \/ CallRemoveItem
    \/ RemoveUnit
    \/ ClearStorageUnits
    \/ ClearHistory
    \/ ClearAllData

StoreSpec == Init /\ [][StoreNext]_vars

----------------------------------------------------------------------------
(* UnitSpec: the session with the additions of storage units, by the      *)
(* sidebar handler and by StorageManager.add_unit, and an item to fill    *)
(* them                                                                   *)

\* two of STORAGE_TYPES, src/main.py:130-136
UnitTypes == { UnitType, <<"emoji", "Frys">> }

\* add_unit that writes the unit whether or not the name exists
add_unit_overwriting(units, name, unit_type) ==
    [returned |-> TRUE, units |-> DictSet(units, name, StorageUnit(unit_type, <<>>))]

\* StorageManager.add_unit(name, unit_type), src/models/storage.py:15-24: the
\* value returned and the inventory it leaves; it saves when it returns True
add_unit(units, name, unit_type) ==
    IF name \notin DOMAIN units
    THEN [returned |-> TRUE, units |-> DictSet(units, name, StorageUnit(unit_type, <<>>))]
    ELSE [returned |-> FALSE, units |-> units]

\* A call storage_mgr.add_unit(name, unit_type) on the session;
\* save_storage_data writes the inventory only.
CallAddUnit ==
    \E name \in UnitNames, unit_type \in UnitTypes :
        LET r == add_unit(storage_units, name, unit_type)
        IN  /\ storage_units' = r.units
            /\ persisted' = IF r.returned
                             THEN [persisted EXCEPT !.storage_units = r.units]
                             ELSE persisted
            /\ pressed' = "storage_mgr.add_unit"
            /\ entered' = [unit_name |-> name, unit_type |-> unit_type,
                            returned |-> r.returned]
            /\ UNCHANGED <<expiration_reminders, item_history, schedVars, dbVars, clockVars,
                           scanVars, mailVars, schedule_info, manager_items>>

UnitAddUnit == AddUnitTyped(UnitNames, UnitTypes)

UnitAddItem == AddItemOf({<<"Milk">>}, {<<1, Category, 8>>})

UnitNext ==
    \/ UnitAddUnit
    \/ CallAddUnit
    \/ UnitAddItem

UnitSpec == Init /\ [][UnitNext]_vars

----------------------------------------------------------------------------
(* ItemSpec: the session with the additions of items, by the storage tab  *)
(* handler and by StorageManager.add_item, over two storage units and two *)
(* days                                                                   *)

\* another of FOOD_CATEGORIES, src/main.py:141-152
Drinks == <<"emoji", "Drycker">>

\* the forms submitted: quantity, category, days from today to the
\* expiration date (far enough for the sidebar scan to stay silent)
ItemForms == { <<1, Category, 9>>, <<MaxQty, Drinks, 10>> }

\* add_item that adds the quantity to the quantity of an item already there
add_item_summing(units, unit_name, item_name, quantity, category, exp_date, current_date) ==
    IF unit_name \in DOMAIN units
    THEN LET contents == units[unit_name].contents
             q == IF item_name \in DOMAIN contents
                  THEN contents[item_name].quantity + quantity
                  ELSE quantity
         IN  [returned |-> TRUE,
              units |-> [units EXCEPT ![unit_name].contents =
                           DictSet(@, item_name,
                                   ItemRecord(q, category, strftime(current_date),
                                              strftime(exp_date)))]]
    ELSE [returned |-> FALSE, units |-> units]

\* StorageManager.add_item(unit_name, item_name, quantity, category, exp_date),
\* src/models/storage.py:26-37, called on `current_date`: the value returned
\* and the inventory it leaves; it saves when it returns True
add_item(units, unit_name, item_name, quantity, category, exp_date, current_date) ==
    IF unit_name \in DOMAIN units
    THEN [returned |-> TRUE,
          units |-> [units EXCEPT ![unit_name].contents =
                       DictSet(@, item_name,
                               ItemRecord(quantity, category, strftime(current_date),
                                          strftime(exp_date)))]]
    ELSE [returned |-> FALSE, units |-> units]

\* A call storage_mgr.add_item(unit_name, item_name, quantity, category,
\* exp_date) on the session; save_storage_data writes the inventory only.
CallAddItem ==
    \E unit_name \in UnitNames, item_name \in ItemNames, form \in ItemForms :
        LET r == add_item(storage_units, unit_name, item_name, form[1], form[2],
                          now_date + form[3], now_date)
        IN  /\ storage_units' = r.units
            /\ persisted' = IF r.returned
                             THEN [persisted EXCEPT !.storage_units = r.units]
                             ELSE persisted
            /\ pressed' = "storage_mgr.add_item"
            /\ entered' = [unit_name |-> unit_name, item_name |-> item_name,
                            quantity |-> form[1], category |-> form[2],
                            exp_date |-> now_date + form[3],
                            returned |-> r.returned]
            /\ UNCHANGED <<expiration_reminders, item_history, schedVars, dbVars, clockVars,
                           scanVars, mailVars, schedule_info, manager_items>>

ItemAddUnit == AddUnitNamed(UnitNames)

ItemAddItem == AddItemOf({<<"Milk">>}, ItemForms)

ItemNext ==
    \/ NextDay
    \/ ItemAddUnit
    \/ ItemAddItem
    \/ CallAddItem

ItemSpec == Init /\ [][ItemNext]_vars

----------------------------------------------------------------------------
(* MailSpec: the session with the admin tab's email section, over an *)
(* inventory of one storage unit and one item name                   *)

MailAddUnit == AddUnitNamed({<<"Kyl">>})

MailAddItem == AddItemNamed({<<"Milk">>})

MailNext ==
    \/ NextDay
    \/ MailAddUnit
    \/ MailAddItem
    \/ SavePreferences
    \/ SendNotificationNow
    \/ SendTestEmail
    \/ Activate
    \/ ResetLastSent

MailSpec == Init /\ [][MailNext]_vars

----------------------------------------------------------------------------
(* SessionSpec: sessions of the application that follow each other on one *)
(* store                                                                  *)

\* st.session_state of a session that starts: no key is set
FreshSessionState == <<>>

\* if 'storage_units' not in st.session_state: ... = {} and the same for the
\* reminders and the history, src/main.py:111-122
InitialiseSessionState(session_state) ==
    [k \in DOMAIN session_state
            \cup {"storage_units", "expiration_reminders", "item_history"} |->
        IF k \in DOMAIN session_state THEN session_state[k] ELSE EmptyStore[k]]

\* load_data(), src/main.py:218-244, with the store readable: each document,
\* or the empty value when the document is empty
load_data(session_state, store) ==
    [k \in DOMAIN session_state
            \cup {"storage_units", "expiration_reminders", "item_history"} |->
        IF k \in DOMAIN store THEN store[k] ELSE session_state[k]]

\* if 'storage_units' not in st.session_state: load_data(), src/main.py:503-505
LoadIfNotLoaded(session_state, store) ==
    IF "storage_units" \notin DOMAIN session_state
    THEN load_data(session_state, store)
    ELSE session_state

\* A new session opens the application on the store the earlier sessions
\* left: the first script run, from the top of src/main.py to the sidebar scan.
StartSession ==
    LET session_state ==
            LoadIfNotLoaded(InitialiseSessionState(FreshSessionState), persisted)
    IN  /\ storage_units' = session_state.storage_units
        /\ expiration_reminders' = session_state.expiration_reminders
        /\ item_history' = session_state.item_history
        /\ LET r == check_expiring_items(storage_units', expiration_reminders', now_date)
           IN  /\ expired_items' = r.expired
               /\ expiring_warnings' = r.warnings
               /\ scanned' = TRUE
               /\ times_reported' = CountReported(NotReported, r.warnings)
        /\ AdminRun("session_start", email_config)
        /\ notification' = NoNotification
        /\ UNCHANGED <<persisted, schedVars, dbVars, clockVars, email_config>>

SessionNext ==
    \/ AddUnit
    \/ StoreAddItem
    \/ RemoveItem
    \/ StartSession

SessionSpec == Init /\ [][SessionNext]_vars

----------------------------------------------------------------------------
(* DbSpec: save_storage_data and load_storage_data called by two sessions *)
(* on one database and one local file                                     *)

\* the inventories that the sessions hold in memory
DbInventories ==
    { <<>>,
      DictSet(<<>>, <<"Kyl">>, StorageUnit(UnitType, <<>>)),
      DictSet(<<>>, <<"Kyl">>,
              StorageUnit(UnitType,
                          DictSet(<<>>, <<"Milk">>,
                                  ItemRecord(1, Category, strftime(0), strftime(8))))) }

\* save_storage_data(data) of session s up to db.storage_units.delete_many({}),
\* src/database.py:79-91, and to its return when the database is not there or
\* the delete raises (lines 97-112)
SaveDelete(s) ==
    \E data \in DbInventories, db_outcome \in DatabaseOutcomes,
       file_outcome \in FileOutcomes :
        /\ saving[s].pc # "deleted"
        /\ IF db_outcome = "available"
           THEN /\ db_storage_units' = <<>>
                /\ saving' = [saving EXCEPT ![s] =
                                [pc |-> "deleted", data |-> data, returned |-> FALSE,
                                 path |-> "db"]]
                /\ UNCHANGED <<storage_file, last_finished>>
           ELSE LET r == LocalSave(data, storage_file, file_outcome)
                IN  /\ storage_file' = r.file
                    /\ saving' = [saving EXCEPT ![s] = r.saving]
                    /\ last_finished' = s
                    /\ UNCHANGED db_storage_units
        /\ loaded' = NotLoaded
        /\ UNCHANGED <<schedVars, clockVars, sessionVars, scanVars, mailVars, runVars,
                       manager_items>>

\* save_storage_data(data) of session s from db.storage_units.insert_one to
\* its return, src/database.py:92-112
SaveInsert(s) ==
    \E db_outcome \in DatabaseOutcomes \ {"unreachable"}, file_outcome \in FileOutcomes :
        /\ saving[s].pc = "deleted"
        /\ IF db_outcome = "available"
           THEN /\ db_storage_units' =
                     Append(db_storage_units, StoredDocument(saving[s].data))
                /\ saving' = [saving EXCEPT ![s].pc = "done", ![s].returned = TRUE]
                /\ UNCHANGED storage_file
           ELSE LET r == LocalSave(saving[s].data, storage_file, file_outcome)
                IN  /\ storage_file' = r.file
                    /\ saving' = [saving EXCEPT ![s] = r.saving]
                    /\ UNCHANGED db_storage_units
        /\ last_finished' = s
        /\ loaded' = NotLoaded
        /\ UNCHANGED <<schedVars, clockVars, sessionVars, scanVars, mailVars, runVars,
                       manager_items>>

\* load_storage_data() past its cache.  find() is called without a sort: the
\* database does not fix which document comes first.
LoadStorageData ==
    \E db_outcome \in DatabaseOutcomes, file_outcome \in FileOutcomes,
       first \in 1..(IF db_storage_units = <<>> THEN 1 ELSE Len(db_storage_units)) :
        LET r == load_storage_data(db_storage_units, storage_file, db_outcome,
                                   file_outcome, first)
        IN  /\ loaded' = [called |-> TRUE, source |-> r.source, data |-> r.data]
            /\ UNCHANGED <<db_storage_units, storage_file, saving, last_finished>>
            /\ UNCHANGED <<schedVars, clockVars, sessionVars, scanVars, mailVars,
                           runVars, manager_items>>

DbNext ==
    \/ \E s \in Sessions : SaveDelete(s)
    \/ \E s \in Sessions : SaveInsert(s)
    \/ LoadStorageData

DbSpec == Init /\ [][DbNext]_vars

----------------------------------------------------------------------------
(* RemoveSpec: 'Ta bort förvaringsenhet' as a function of the inventory and *)
(* the reminder map, which are drawn in Init                                *)

RemoveNext == RemoveUnit

RemoveSpec == ScanInit /\ [][RemoveNext]_vars

----------------------------------------------------------------------------
(* ConfigSpec: the session with the operations that write email_config.yml: *)
(* activation, schedule update, preference save, reset of last_sent         *)

\* schedule_daily_notification(recipient_email, weekdays, time_str,
\* preferences), src/email_handler.py:194-239: the file it writes from the
\* loaded config, whose notification section it replaces
schedule_daily_notification(recipient_email, wds, t, preferences) ==
    EmailConfig(recipient_email, Schedule(wds, t), TRUE, preferences, NoTimestamp, TRUE)

\* the schedules chosen in the form: "Alla dagar" at 08:00, "Vardagar" at
\* 09:00, src/components/admin.py:203-230
ScheduleChoices == { Schedule(0..6, 8), Schedule(0..4, 9) }

\* 'Uppdatera schema', src/components/admin.py:232-241
UpdateSchedule ==
    \E schedule \in ScheduleChoices :
        /\ email_config.recipient # ""
        /\ SidebarScan(1)
        /\ email_config' = schedule_daily_notification(
                email_config.recipient, schedule.weekdays, schedule.time,
                IF email_config.has_preferences THEN email_config.preferences
                ELSE [k \in {} |-> TRUE])
        /\ AdminRun("update_schedule", email_config')
        /\ notification' = NoNotification
        /\ UNCHANGED <<schedVars, dbVars, clockVars, sessionVars>>

ConfigNext ==
    \/ MailAddUnit
    \/ MailAddItem
    \/ Activate
    \/ UpdateSchedule
    \/ SavePreferences
    \/ ResetLastSent

ConfigSpec == Init /\ [][ConfigNext]_vars

----------------------------------------------------------------------------
(* Claims about check_expiring_items as a function, checked under ScanSpec *)

\* The item `i` of unit `u` is in the inventory with a date before today.
HasPastDate(u, i) ==
    /\ u \in DOMAIN storage_units
    /\ i \in DOMAIN storage_units[u].contents
    /\ storage_units[u].contents[i].expiration_date.form # "bad"
    /\ storage_units[u].contents[i].expiration_date.day < now_date

\* C1: for every inventory and every current date, the expired list returned
\* by check_expiring_items holds exactly the items whose expiration_date is
\* before today (each once), each with days = today - expiration_date, a
\* positive integer, and none of them is in the expiring-soon list.
C1_ExpiredExactly ==
    scanned =>
      /\ \A u \in UnitNames, i \in ItemNames :
            HasPastDate(u, i) =>
                Cardinality({ k \in 1..Len(expired_items) :
                                /\ expired_items[k].unit = u
                                /\ expired_items[k].item = i }) = 1
      /\ \A k \in 1..Len(expired_items) :
            LET e == expired_items[k]
            IN  /\ HasPastDate(e.unit, e.item)
                /\ e.days = now_date
                            - storage_units[e.unit].contents[e.item].expiration_date.day
                /\ e.days > 0
      /\ \A k \in 1..Len(expiring_warnings) :
            ~HasPastDate(expiring_warnings[k].unit, expiring_warnings[k].item)

\* C1 witness: a scan of an inventory with an item two days past its date and
\* an item expiring today returned one entry in each list.
C1_Witness ==
    /\ scanned
    /\ Len(expired_items) = 1
    /\ expired_items[1].days = 2
    /\ Len(expiring_warnings) = 1
    /\ expiring_warnings[1].days = 0

\* the inventory `units` without the items whose expiration_date does not parse
WithoutBadDates(units) ==
    [u \in DOMAIN units |->
        StorageUnit(units[u].type,
            [i \in { j \in DOMAIN units[u].contents :
                        ~RaisesValueError(units[u].contents[j].expiration_date) } |->
                units[u].contents[i]])]

\* C15 (as claimed): an item whose expiration_date does not parse is left out
\* of the result and every other item is classified as if the bad item were
\* absent, without the scan aborting; for check_expiring_items and for
\* StorageManager.get_expiring_items.
C15_BadDatesSkipped ==
    /\ scanned =>
         [expired |-> expired_items, warnings |-> expiring_warnings]
            = check_expiring_items(WithoutBadDates(storage_units),
                                   expiration_reminders, now_date)
    /\ manager_items.called =>
         /\ ~manager_items.raised
         /\ manager_items.items
               = get_expiring_items(WithoutBadDates(storage_units), now_date).items

\* C16: a scan (check_expiring_items) leaves the inventory, the reminder map
\* and the history unchanged, in the session and in the store; a scan by
\* itself marks no ReminderKey as notified.
C16_ScanHasNoSideEffect ==
    [][(scanned' /\ ~scanned) =>
          /\ storage_units' = storage_units
          /\ expiration_reminders' = expiration_reminders
          /\ item_history' = item_history
          /\ persisted' = persisted
      ]_vars

\* C16 witness: a scan returned an expired item and a warning for a key that
\* has no marker in the reminder map.
C16_Witness ==
    /\ scanned
    /\ Len(expired_items) = 1
    /\ Len(expiring_warnings) = 1
    /\ expiring_warnings[1].key \notin expiration_reminders

----------------------------------------------------------------------------
(* Claims about the scans of a session, checked under Spec *)

\* C2 (as claimed): while the reminders are not cleared, an item expiring
\* within 7 days is returned in the expiring-soon list once per ReminderKey:
\* no key is returned by two scans without a clearing between them
\* (times_reported counts the scans since the last clearing).
C2_ReportedOncePerKey ==
    \A k \in AllReminderKeys : times_reported[k] <= 1

----------------------------------------------------------------------------
(* Claims about send_expiration_notification as a function, checked under *)
(* NotifySpec                                                             *)

\* the five notify_* toggles are stored and false
AllTogglesFalse(preferences) ==
    \A key \in {"notify_expired", "notify_expiring_soon", "notify_low_quantity",
                "notify_removed_items", "notify_added_items"} :
        key \in DOMAIN preferences /\ ~preferences[key]

\* C9: with all notify_* toggles false, send_expiration_notification on a
\* non-empty candidate list builds empty expired, expiring-soon and
\* low-quantity lists, signals nothing-to-notify (returns True), does not
\* invoke the email transport and leaves the persisted config as it was.
C9_AllTogglesFalse ==
    [][(/\ notification'.called
        /\ notification'.items # <<>>
        /\ AllTogglesFalse(notification'.preferences))
       => (/\ notification'.lists.expired_items = <<>>
           /\ notification'.lists.expiring_items = <<>>
           /\ notification'.lists.low_quantity_items = <<>>
           /\ notification'.returned
           /\ ~notification'.transport_invoked
           /\ ~notification'.message_sent
           /\ email_config' = email_config)]_vars

\* C9 witness: the function was called with all toggles false on a list of
\* an expired item of quantity 1 and an item expiring today.
C9_Witness ==
    /\ notification.called
    /\ AllTogglesFalse(notification.preferences)
    /\ Len(notification.items) = 2
    /\ notification.items[1].days = -1
    /\ "quantity" \in DOMAIN notification.items[1]
    /\ notification.items[1].quantity = 1
    /\ notification.items[2].days = 0
    /\ notification.returned

\* C26 (as claimed): when the test-notification action reports success
\* (send_expiration_notification returned True), the email transport was
\* invoked and a message was sent.
C26_TestSuccessMeansSent ==
    (pressed = "send_test_notification" /\ notification.returned)
        => (notification.transport_invoked /\ notification.message_sent)

----------------------------------------------------------------------------
(* Claims about the scan-then-filter pipeline of 'Skicka notifiering nu', *)
(* checked under MailSpec                                                 *)

\* the entries of `items` (a list of item dicts) for item `i` of unit `u`
EntriesFor(items, u, i) ==
    { k \in 1..Len(items) : items[k].unit = u /\ items[k].item = i }

\* item `i` of unit `u` is in one of the three lists of the notification
InNotification(u, i) ==
    \/ EntriesFor(notification.lists.expired_items, u, i) # {}
    \/ EntriesFor(notification.lists.expiring_items, u, i) # {}
    \/ EntriesFor(notification.lists.low_quantity_items, u, i) # {}

\* C7 (as claimed): in the scan-then-filter pipeline, with notify_expired
\* false no item whose expiration date is before today is included in the
\* notification, and with notify_expiring_soon false no item is included as
\* expiring soon.
C7_TogglesDropLists ==
    notification.called =>
      /\ ~PrefGet(notification.preferences, "notify_expired", TRUE) =>
            \A u \in UnitNames, i \in ItemNames :
                HasPastDate(u, i) => ~InNotification(u, i)
      /\ ~PrefGet(notification.preferences, "notify_expiring_soon", TRUE) =>
            notification.lists.expiring_items = <<>>

\* C8 (as claimed): an item that expired d >= 1 days ago is returned by the
\* scan in expired with days = d, is placed in the notification's expired
\* list whenever notify_expired is true, and the transport is then invoked
\* with a body naming the item.
C8_ExpiredItemNotified ==
    notification.called =>
      \A u \in UnitNames, i \in ItemNames :
        HasPastDate(u, i) =>
          /\ \E k \in EntriesFor(expired_items, u, i) :
                expired_items[k].days =
                    now_date - storage_units[u].contents[i].expiration_date.day
          /\ PrefGet(notification.preferences, "notify_expired", TRUE) =>
                /\ EntriesFor(notification.lists.expired_items, u, i) # {}
                /\ notification.transport_invoked
                /\ \E k \in 1..Len(notification.body.expired) :
                      notification.body.expired[k] = i

\* the items of the inventory with quantity <= threshold, as <<unit, item>>
LowInInventory(threshold) ==
    { sl \in AllSlots :
        /\ sl[1] \in DOMAIN storage_units
        /\ sl[2] \in DOMAIN storage_units[sl[1]].contents
        /\ storage_units[sl[1]].contents[sl[2]].quantity <= threshold }

\* C10 (as claimed): with notify_low_quantity true the low-quantity list of a
\* notification is exactly the set of items of the full current inventory
\* with quantity <= low_quantity_threshold; with it false the list is empty.
C10_LowQuantityFromInventory ==
    notification.called =>
      IF PrefGet(notification.preferences, "notify_low_quantity", FALSE)
      THEN { <<notification.lists.low_quantity_items[k].unit,
               notification.lists.low_quantity_items[k].item>> :
                k \in 1..Len(notification.lists.low_quantity_items) }
             = LowInInventory(PrefGet(notification.preferences,
                                      "low_quantity_threshold", 2))
      ELSE notification.lists.low_quantity_items = <<>>

----------------------------------------------------------------------------
\* expiration_date - today of item `i` of unit `u`, in days
DaysRemaining(u, i) ==
    strptime(storage_units[u].contents[i].expiration_date) - now_date

\* The step is the script run in which the button `button` was pressed:
\* every step but the passing of midnight sets `pressed`.
Pressed(button) == pressed' = button /\ now_date' = now_date

\* C11 (as claimed): the expiring-soon threshold is configurable: with
\* expiring_soon_days = T (and notify_expiring_soon set), in the notification
\* of 'Skicka notifiering nu' every inventory item with
\* 0 <= days_remaining <= T and no reminder marker is reported as expiring
\* soon, and no item with days_remaining > T is.
C11_ThresholdConfigurable ==
    [][Pressed("send_now") =>
        LET preferences == LoadedPreferences(email_config)
            T == PrefGet(preferences, "expiring_soon_days", 7)
        IN  PrefGet(preferences, "notify_expiring_soon", TRUE) =>
              \A u \in DOMAIN storage_units :
                \A i \in DOMAIN storage_units[u].contents :
                  /\ (/\ 0 <= DaysRemaining(u, i)
                      /\ DaysRemaining(u, i) <= T
                      /\ ReminderKey(u, i) \notin expiration_reminders)
                       => EntriesFor(notification'.lists.expiring_items, u, i) # {}
                  /\ DaysRemaining(u, i) > T
                       => EntriesFor(notification'.lists.expiring_items, u, i) = {}
      ]_vars

\* C12 (as claimed): in a notification operation (activation, 'Skicka
\* notifiering nu', 'Skicka test-email'), when the email was sent the persisted
\* last_sent is the time of that send when the operation finishes, and
\* last_sent takes a new time only when an email was sent.
C12_LastSentTracksSend ==
    [][(Pressed("activate") \/ Pressed("send_now") \/ Pressed("test_email")) =>
        /\ notification'.message_sent
             => email_config'.last_sent = Timestamp(now_date, now_time)
        /\ (/\ email_config'.last_sent # email_config.last_sent
            /\ email_config'.last_sent # NoTimestamp)
             => notification'.message_sent
      ]_vars

\* the notification section of the file: recipient, schedule, preferences
\* and last_sent
NotificationSection(config) ==
    [recipient |-> config.recipient, schedule |-> config.schedule,
     has_preferences |-> config.has_preferences,
     preferences |-> config.preferences, last_sent |-> config.last_sent]

\* C13 (as claimed): when the email transport fails during 'Skicka
\* notifiering nu' or 'Skicka test-email', the persisted notification config,
\* last_sent included, is after the operation what it was before it.
C13_FailureKeepsConfig ==
    [][((Pressed("send_now") \/ Pressed("test_email"))
         /\ notification'.transport_invoked
         /\ ~notification'.message_sent)
        => NotificationSection(email_config') = NotificationSection(email_config)
      ]_vars

\* C14 (as claimed): the next-send time that get_email_schedule_info returns
\* is next_send_time evaluated from last_sent, not from the current time.
C14_NextSendFromLastSent ==
    schedule_info.last_sent # NoTimestamp =>
        LET r == get_next_scheduled_time(email_config.schedule.weekdays,
                                         email_config.schedule.time,
                                         schedule_info.last_sent[1],
                                         schedule_info.last_sent[2])
        IN  schedule_info.next_send = Timestamp(r.date, r.time)

----------------------------------------------------------------------------
(* Claims about save_storage_data and load_storage_data, checked under DbSpec *)

\* C21 (as claimed): no silent data loss in persistence: if
\* save_storage_data(d) returns True, the next uncached load_storage_data
\* returns d, for every combination of database outcomes (available, write
\* fails after the delete step, unreachable with fallback to the local file);
\* stated for a session that saves alone.
C21_SavedIsLoaded ==
    (/\ loaded.called
     /\ last_finished # ""
     /\ \A s \in Sessions \ {last_finished} : saving[s] = NotSaving
     /\ saving[last_finished].pc = "done"
     /\ saving[last_finished].returned)
        => loaded.data = saving[last_finished].data

\* C22 (as claimed): concurrent edits are last-writer-wins: with two sessions
\* that each save their in-memory inventory as a whole document without
\* locking, after both saves finish a fresh load returns the in-memory
\* inventory of the session whose save finished last, under every
\* interleaving of the two saves' steps (delete all documents, insert one
\* document).
C22_LastWriterWins ==
    (/\ loaded.called
     /\ loaded.source = "db"
     /\ \A s \in Sessions :
           saving[s].pc = "done" /\ saving[s].path = "db" /\ saving[s].returned)
        => loaded.data = saving[last_finished].data

----------------------------------------------------------------------------
(* Claims about the start of a session, checked under SessionSpec *)

\* C27 (as claimed): at the start of a session, before any user action, the
\* in-memory inventory, history and reminder map equal the persisted ones;
\* empty in-memory state is used only when nothing is persisted.
C27_SessionStartsFromStore ==
    pressed = "session_start" =>
        /\ storage_units = persisted.storage_units
        /\ item_history = persisted.item_history
        /\ expiration_reminders = persisted.expiration_reminders

----------------------------------------------------------------------------
(* Claims about the deletion of a storage unit, checked under RemoveSpec *)

\* the reminder keys of the items that unit `u` of the inventory `units` holds
KeysOf(units, u) == { ReminderKey(u, i) : i \in DOMAIN units[u].contents }

----------------------------------------------------------------------------
(* Claims about the operations that write email_config.yml, checked under *)
(* ConfigSpec                                                             *)

\* the step sent a notification successfully
SendSucceeded ==
    notification'.called /\ notification'.returned /\ notification'.message_sent

\* C24 (as claimed): the persisted last_sent changes only when a send
\* succeeds or when the admin resets it ('Återställ senaste skickad'):
\* changing the schedule or recipient through schedule_daily_notification, or
\* saving notification preferences, leaves last_sent unchanged, and saving
\* preferences also leaves recipient and schedule unchanged.
C24_LastSentOnlyBySendOrReset ==
    [][/\ email_config'.last_sent # email_config.last_sent
            => (SendSucceeded \/ Pressed("reset_last_sent"))
       /\ Pressed("update_schedule")
            => email_config'.last_sent = email_config.last_sent
       /\ Pressed("save_preferences")
            => /\ email_config'.last_sent = email_config.last_sent
               /\ email_config'.recipient = email_config.recipient
               /\ email_config'.schedule = email_config.schedule
      ]_vars

\* C29 (as claimed): the email app password and sender address are never
\* written to the persisted email_config.yml by any operation that saves the
\* notification config (schedule update, preference save, last_sent update
\* after a send, last_sent reset).
C29_SecretsNotPersisted == ~email_config.secrets

----------------------------------------------------------------------------
(* Claims about the handlers that change the inventory and the history, *)
(* checked under StoreSpec                                              *)

\* every item record of the inventory `units` has quantity >= 1
QuantitiesPositive(units) ==
    \A u \in DOMAIN units :
        \A i \in DOMAIN units[u].contents : units[u].contents[i].quantity >= 1

\* item `i` is in the contents of unit `u` of the inventory `units`
Present(units, u, i) ==
    u \in DOMAIN units /\ i \in DOMAIN units[u].contents

\* the items of the inventory `units` with their records
ItemsOf(units) ==
    { <<u, i, units[u].contents[i]>> :
        <<u, i>> \in { sl \in AllSlots : Present(units, sl[1], sl[2]) } }

\* sequence a is the beginning of sequence b
IsPrefix(a, b) == Len(a) <= Len(b) /\ SubSeq(b, 1, Len(a)) = a

\* C17: after any sequence of additions and removals every item present has
\* quantity >= 1: a removal of q < the current quantity reduces the record's
\* quantity by exactly q in place, a removal of q >= the current quantity (or
\* with no quantity) deletes the item; for the 'Bekräfta' handler and for
\* StorageManager.remove_item.
C17_QuantityAtLeastOne ==
    [][/\ QuantitiesPositive(storage_units')
       /\ (/\ Len(item_history') = Len(item_history) + 1
           /\ item_history'[Len(item_history')].action = "removed")
            => LET e == item_history'[Len(item_history')]
                   before == storage_units[e.storage_unit].contents
                   after == storage_units'[e.storage_unit].contents
               IN  IF e.quantity < before[e.item].quantity
                   THEN /\ e.item \in DOMAIN after
                        /\ after[e.item] = [before[e.item] EXCEPT
                                               !.quantity = @ - e.quantity]
                   ELSE e.item \notin DOMAIN after
       /\ \A u \in DOMAIN storage_units :
            \A i \in DOMAIN storage_units[u].contents :
              \A q \in RemoveQuantities :
                LET cur == storage_units[u].contents[i]
                    after == remove_item(storage_units, u, i, q).units[u].contents
                IN  IF q # NoQuantity /\ q < cur.quantity
                    THEN /\ i \in DOMAIN after
                         /\ after[i] = [cur EXCEPT !.quantity = @ - q]
                    ELSE i \notin DOMAIN after
      ]_vars

\* C17 witness: 'Bekräfta' removed 1 of an item of quantity 2, which is still
\* in the unit with quantity 1.
C17_Witness ==
    /\ pressed = "confirm_remove"
    /\ Len(item_history) = 2
    /\ item_history[1].action = "added"
    /\ item_history[1].quantity = 2
    /\ item_history[2].action = "removed"
    /\ item_history[2].quantity = 1
    /\ Present(storage_units, <<"Kyl">>, <<"Milk">>)
    /\ storage_units[<<"Kyl">>].contents[<<"Milk">>].quantity = 1

\* C18 (as claimed): every operation that changes the inventory's items
\* (adding an item, reducing or removing an item, deleting a storage unit that
\* has contents, clearing all storage units) appends at least one history
\* entry.
C18_MutationsLogged ==
    [][((\E button \in {"add_item", "confirm_remove", "remove_unit",
                        "clear_storage_units"} : Pressed(button))
         /\ ItemsOf(storage_units') # ItemsOf(storage_units))
        => /\ Len(item_history') > Len(item_history)
           /\ IsPrefix(item_history, item_history')
      ]_vars

\* C19: the history is append-only under item operations: after a step every
\* entry that was present before is still present, unchanged and in the same
\* order, unless the step is one of the admin purges.
C19_HistoryAppendOnly ==
    [][\/ IsPrefix(item_history, item_history')
       \/ Pressed("clear_history")
       \/ Pressed("clear_all")
      ]_vars

\* C19 witness: an item was added and then removed; the history holds the
\* "added" entry followed by the "removed" entry.
C19_Witness ==
    /\ pressed = "confirm_remove"
    /\ Len(item_history) = 2
    /\ item_history[1].action = "added"
    /\ item_history[2].action = "removed"
    /\ item_history[2].quantity = 2
    /\ ~Present(storage_units, <<"Kyl">>, <<"Milk">>)

----------------------------------------------------------------------------
(* Claims about the additions of storage units, checked under UnitSpec *)

\* C23: storage unit names are unique keys: adding a unit whose name already
\* exists is rejected, leaving the existing unit, its type and its contents
\* unchanged and saving nothing; adding a new name creates a unit with empty
\* contents and leaves every other unit unchanged; for the sidebar handler and
\* for StorageManager.add_unit.
C23_UnitNamesUnique ==
    [][(Pressed("add_unit") \/ Pressed("storage_mgr.add_unit"))
        => LET name == entered'.unit_name
           IN  IF name \in DOMAIN storage_units
               THEN /\ storage_units' = storage_units
                    /\ persisted' = persisted
                    /\ Pressed("storage_mgr.add_unit") => ~entered'.returned
               ELSE /\ DOMAIN storage_units' = DOMAIN storage_units \cup {name}
                    /\ storage_units'[name] = StorageUnit(entered'.unit_type, <<>>)
                    /\ \A u \in DOMAIN storage_units :
                          storage_units'[u] = storage_units[u]
                    /\ persisted'.storage_units = storage_units'
                    /\ Pressed("storage_mgr.add_unit") => entered'.returned
      ]_vars

\* C23 witness: the sidebar handler ran with the name of a unit that exists,
\* holds an item and has another type than the one selected; a second unit
\* exists.
C23_Witness ==
    /\ pressed = "add_unit"
    /\ entered.unit_name = <<"Kyl">>
    /\ Present(storage_units, <<"Kyl">>, <<"Milk">>)
    /\ entered.unit_type # storage_units[<<"Kyl">>].type
    /\ <<"Kyl", "_", "B">> \in DOMAIN storage_units

----------------------------------------------------------------------------
(* Claims about the additions of items, checked under ItemSpec *)

\* C30: adding an item whose name already exists in the unit replaces that
\* item's record with the new quantity, category, date_added and
\* expiration_date (quantities are not summed) and leaves every other item and
\* every other unit unchanged; StorageManager.add_item on a unit that does not
\* exist returns False and changes nothing.
C30_AddItemReplaces ==
    [][(Pressed("add_item") \/ Pressed("storage_mgr.add_item"))
        => LET e == entered'
               u == e.unit_name
               i == e.item_name
           IN  IF u \in DOMAIN storage_units
               THEN /\ DOMAIN storage_units' = DOMAIN storage_units
                    /\ storage_units'[u].type = storage_units[u].type
                    /\ DOMAIN storage_units'[u].contents
                          = DOMAIN storage_units[u].contents \cup {i}
                    /\ storage_units'[u].contents[i]
                          = ItemRecord(e.quantity, e.category, strftime(now_date),
                                       strftime(e.exp_date))
                    /\ \A j \in DOMAIN storage_units[u].contents \ {i} :
                          storage_units'[u].contents[j] = storage_units[u].contents[j]
                    /\ \A v \in DOMAIN storage_units \ {u} :
                          storage_units'[v] = storage_units[v]
                    /\ Pressed("storage_mgr.add_item") => e.returned
               ELSE /\ Pressed("storage_mgr.add_item")
                    /\ ~e.returned
                    /\ storage_units' = storage_units
                    /\ persisted' = persisted
      ]_vars

\* C30 witness: the handler added 1 of an item on the day after it had added
\* MaxQty of the same item to the same unit: the record holds quantity 1, the
\* new category and dates; another item of the unit and the same item of
\* another unit are in the inventory.
C30_Witness ==
    /\ pressed = "add_item"
    /\ Len(item_history) = 2
    /\ item_history[1].item = <<"Milk">>
    /\ item_history[1].storage_unit = <<"Kyl">>
    /\ item_history[1].quantity = MaxQty
    /\ item_history[1].timestamp[1] = 0
    /\ entered.unit_name = <<"Kyl">>
    /\ entered.item_name = <<"Milk">>
    /\ now_date = 1
    /\ storage_units[<<"Kyl">>].contents[<<"Milk">>]
          = ItemRecord(1, Category, strftime(1), strftime(10))
    /\ Present(storage_units, <<"Kyl">>, <<"B", "_", "Milk">>)
    /\ Present(storage_units, <<"Kyl", "_", "B">>, <<"Milk">>)

----------------------------------------------------------------------------
(* Claims about get_next_scheduled_time, checked under SchedSpec *)

\* The dates strictly after `from` up to `to` (exclusive) hold no allowed weekday.
NoAllowedDayBetween(from, to) ==
    \A d \in (from + 1)..(to - 1) : (d % 7) \notin weekdays

\* C3: for every non-empty weekday set, time of day and current time, the
\* function returns today at time_of_day when today's weekday is allowed and
\* now's time of day <= time_of_day (boundary inclusive), and otherwise
\* time_of_day on the first date strictly after today whose weekday is allowed.
C3_NextSendTime ==
    \A i \in 1..Len(sched_calls) :
        LET c == sched_calls[i]
            r == c.result
        IN  weekdays # {} =>
              /\ ~r.raised
              /\ r.time = 2 * time_str
              /\ IF (c.now_date % 7) \in weekdays /\ c.now_time <= 2 * time_str
                 THEN r.date = c.now_date
                 ELSE /\ r.date > c.now_date
                      /\ (r.date % 7) \in weekdays
                      /\ NoAllowedDayBetween(c.now_date, r.date)

\* C3 witness: a call on an allowed day after the time has passed went to a
\* later date, and the call made when the clock reached that send time (the
\* boundary now.time() = time_of_day) returned that same day.
C3_Witness ==
    /\ Len(sched_calls) = 2
    /\ weekdays # {}
    /\ (sched_calls[1].now_date % 7) \in weekdays
    /\ sched_calls[1].now_time > 2 * time_str
    /\ sched_calls[1].result.date > sched_calls[1].now_date + 1
    /\ sched_calls[2].now_time = 2 * time_str
    /\ sched_calls[2].result.date = sched_calls[2].now_date

\* C4 (as claimed): called with an empty weekday set, the function signals a
\* ScheduleError instead of returning a datetime.
C4_EmptyWeekdaysRaises ==
    \A i \in 1..Len(sched_calls) :
        weekdays = {} => sched_calls[i].result.raised

\* The inputs of C5: weekdays = {1}, time "08:00", now = Wednesday 09:00.
C5_Inputs(c) ==
    /\ weekdays = {1}
    /\ time_str = 8
    /\ c.now_date % 7 = 2
    /\ c.now_time = 2 * 9

\* C5 (as claimed): the result is the following Tuesday 08:00 and that date
\* is 7 days after now's date.
C5_SevenDaysLater ==
    \A i \in 1..Len(sched_calls) :
        LET c == sched_calls[i]
        IN  C5_Inputs(c) =>
              /\ c.result.date % 7 = 1
              /\ c.result.time = 2 * 8
              /\ c.result.date = c.now_date + 7

\* C5 (amended): with weekdays = {1}, time 08:00 and now = Wednesday 09:00 the
\* result is the following Tuesday at 08:00, and that date is 6 days after
\* now's date.
C5_FollowingTuesday ==
    \A i \in 1..Len(sched_calls) :
        LET c == sched_calls[i]
        IN  C5_Inputs(c) =>
              /\ ~c.result.raised
              /\ c.result.date % 7 = 1
              /\ c.result.time = 2 * 8
              /\ c.result.date = c.now_date + 6

\* C5 witness: the function was called with exactly these inputs.
C5_Witness ==
    /\ Len(sched_calls) >= 1
    /\ C5_Inputs(sched_calls[1])

\* C6: idempotent once aligned: for every non-empty weekday set and time of
\* day, a call made with now equal to the send time the previous call returned
\* returns that same send time.
C6_IdempotentOnceAligned ==
    \A i \in 2..Len(sched_calls) :
        LET p == sched_calls[i - 1]
            c == sched_calls[i]
        IN  (weekdays # {} /\ c.now_date = p.result.date /\ c.now_time = p.result.time)
              => c.result = p.result

\* C6 witness: weekdays {0,2,4}, 08:00; a first call on Monday after 08:00
\* returned Wednesday 08:00, the clock reached it, and the function was called
\* again at Wednesday 08:00 exactly.
C6_Witness ==
    /\ Len(sched_calls) = 2
    /\ weekdays = {0, 2, 4}
    /\ time_str = 8
    /\ sched_calls[1].now_date % 7 = 0
    /\ sched_calls[1].now_time > 2 * 8
    /\ sched_calls[2].now_date % 7 = 2
    /\ sched_calls[2].now_time = 2 * 8
    /\ sched_calls[2].now_date = sched_calls[1].result.date

\* C25: for every non-empty weekday set, time of day and current time now, the
\* datetime returned by get_next_scheduled_time is never earlier than now,
\* falls on a weekday that is in the set, and its date is at most 7 days after
\* now's date.
C25_NextSendWithinAWeek ==
    \A i \in 1..Len(sched_calls) :
        LET c == sched_calls[i]
            r == c.result
        IN  weekdays # {} =>
              /\ ~r.raised
              /\ \/ r.date > c.now_date
                 \/ r.date = c.now_date /\ r.time >= c.now_time
              /\ (r.date % 7) \in weekdays
              /\ r.date <= c.now_date + 7

\* C25 witness: the only allowed weekday is today's and the time of day has
\* passed: the call returned the same weekday one week later.
C25_Witness ==
    /\ Len(sched_calls) >= 1
    /\ weekdays = {sched_calls[1].now_date % 7}
    /\ sched_calls[1].now_time > 2 * time_str
    /\ sched_calls[1].result.date = sched_calls[1].now_date + 7

====
